---- MODULE Spec2Model ----
(***************************************************************************)
(* Checkout orchestration of the Coastal Tide Escapes booking backend.     *)
(*                                                                         *)
(* The repository holds several deployed versions of server.js.  The       *)
(* model runs one of them per behaviour (variable `variant`):              *)
(*   "await"    awaited webhook POST with a manual redirect hop            *)
(*              (src/unnamed/part_001, part_002; also /track-event)        *)
(*   "retry"    fetchWithTimeout + two-attempt webhook loop                *)
(*              (src/server.js, second server, lines 299-600)              *)
(*   "detached" fire-and-forget GET webhook (src/unnamed/part_003)         *)
(*                                                                         *)
(* The booking widget served with the page (src/unnamed/part_004) prices   *)
(* a stay in the browser; WidgetSpec runs its form handler on its own.     *)
(*                                                                         *)
(* The Payment Provider and the lead webhook are the environment: every    *)
(* answer they can give (status, redirect, lost connection, silence) is a  *)
(* nondeterministic choice.  A JavaScript handler runs to its next await   *)
(* without interleaving, so one action is one such run.                    *)
(***************************************************************************)
EXTENDS Integers, Sequences, FiniteSets, TLC

VARIABLES
    variant,     \* which server.js is deployed
    squareCfg,   \* SQUARE_ACCESS_TOKEN && SQUARE_LOCATION_ID are set
    sheetsCfg,   \* CTE_SHEETS_WEBHOOK_URL && CTE_SHEETS_WEBHOOK_SECRET are set
    now,         \* Date.now()
    uuids,       \* number of crypto.randomUUID() calls made so far
    rq,          \* the inbound requests, by slot
    widget,      \* the booking widget the server serves: its form and its quote
    calc         \* one call of a helper function: its argument and its result

vars == <<variant, squareCfg, sheetsCfg, now, uuids, rq, widget, calc>>

----------------------------------------------------------------------------
(* Bounds of the model *)

NumRnd == 2          \* values crypto.randomBytes(3) is drawn from
MaxFollow == 1       \* redirects fetch follows by itself before it gives up
FirstYear == 2026    \* the years a check-in date is picked from
LastYear == 2028
MaxNights == 6       \* the longest stay entered in the widget
MaxAmount == 130     \* amounts handed to toCents: up to 13 cents either way, in tenths of a cent
MaxDigits == 12      \* the most digits in a phone number handed to normalizePhoneE164

\* The inbound requests of a behaviour: two, so that every claim about a pair
\* of requests (same millisecond, interleaved awaits) has its case.
Reqs == {1, 2}

\* Date.now() is read once per request, so the clock needs no more values than
\* there are requests.
LastNow == Cardinality(Reqs) - 1
Variants == {"await", "retry", "detached"}

----------------------------------------------------------------------------
(* Values *)

NaN == [fin |-> FALSE, v |-> 0]
Num(v) == [fin |-> TRUE, v |-> v]

\* Caller-supplied totals, in tenths of a cent (1496 = $1.496), and NaN.
Totals == {NaN, Num(-10), Num(0), Num(4), Num(1496)}

Null == [null |-> TRUE, v |-> 0]
Cents(v) == [null |-> FALSE, v |-> v]

\* function toCents(total): Math.round(num * 100), null when not finite.
\* Math.round(x) is floor(x + 1/2); in tenths of a cent that is (v + 5) \div 10.
toCents(total) ==
    IF ~total.fin THEN Null ELSE Cents((total.v + 5) \div 10)

\* JavaScript truthiness of a toCents result: null and 0 are falsy.
Falsy(c) == c.null \/ c.v = 0

\* No helper call: the state of calc while the server or the widget runs.
NoCalc == [fn |-> "none", amount |-> NaN, phone |-> <<>>, done |-> FALSE,
           cents |-> Null, out |-> <<>>, twice |-> FALSE, out2 |-> <<>>]

NoRef == <<-1, -1>>
\* makeBookingRef(): "CTE-" + Date.now() + "-" + randomBytes(3).toString("hex")
makeBookingRef(ms, rnd) == <<ms, rnd>>

\* A response: status, body.ok, the checkout URL and the bookingRef the body
\* carries, the kind of error it reports, the keys of a success body, what body.details holds, and
\* what body.sheets says of the webhook delivery.
NoResp == [code |-> 0, ok |-> FALSE, url |-> 0, ref |-> NoRef,
           err |-> "none", keys |-> {}, details |-> "none", sheets |-> "none"]
Reply(code, ok, url) == [NoResp EXCEPT !.code = code, !.ok = ok, !.url = url]

\* Shapes of a caller-supplied string field (eventType, sessionId).
FieldShapes == {"absent", "number", "string"}

\* The fields of the request body the handlers look at.
NoInput == [total |-> NaN, stay |-> FALSE, evt |-> "absent", sid |-> "absent"]

RedirectStatuses == {301, 302, 303, 307, 308}
FinalStatuses == {200, 500}
\* A redirect status the webhook sends without a Location header.
BareRedirects == {302}

NoBody == [idempotency_key |-> 0, name |-> NoRef, amount |-> 0]

\* The lead sent to the webhook: how it travels ("body" of a POST, "query"
\* parameter of a GET), where the shared secret is, the keys of the payload
\* object, and the values of the keys the handlers compute.
NoLead == [sent |-> FALSE, via |-> "-", action |-> "-", secretIn |-> "-",
           keys |-> {}, ref |-> NoRef, url |-> 0, total |-> NaN]

Idle == [kind |-> "none", pc |-> "idle", inp |-> NoInput, ref |-> NoRef,
         sqBody |-> NoBody, sqSent |-> 0, sqOk |-> FALSE, url |-> 0,
         resp |-> NoResp, nresp |-> 0, lead |-> NoLead,
         tmr |-> FALSE, sig |-> FALSE, att |-> 0, hop |-> 0,
         meth |-> "-", carry |-> FALSE, rec |-> 0,
         st |-> 0, ok |-> FALSE, out |-> "none", logged |-> FALSE]

----------------------------------------------------------------------------
(* The handlers' decisions *)

\* crypto.randomUUID(): the next value of a stream that never repeats
\* (RFC 4122 version 4, 122 random bits).
randomUUID == uuids + 1

\* A version that keeps one key for the life of the process.
squareBody_sharedKey(uuid, ref, cents) ==
    [idempotency_key |-> 1, name |-> ref, amount |-> cents]

\* const squareBody = { idempotency_key: crypto.randomUUID(), quick_pay: {...} }
squareBody(uuid, ref, cents) ==
    [idempotency_key |-> uuid, name |-> ref, amount |-> cents]

\* A guard that only rejects what toCents cannot convert.
InvalidTotal_nullOnly(v, total) == toCents(total).null

\* The guard on the caller's total.
\*   await:    if (!cents || cents < 1)
\*   retry:    if (!Number.isFinite(total) || total <= 0) ... if (!cents || cents <= 0)
\*   detached: if (!cents || cents <= 0)
InvalidTotal(v, total) ==
    LET cents == toCents(total) IN
    CASE v = "await"    -> Falsy(cents) \/ cents.v < 1
      [] v = "retry"    -> ~total.fin \/ total.v <= 0 \/ Falsy(cents) \/ cents.v <= 0
      [] v = "detached" -> Falsy(cents) \/ cents.v <= 0

\* if (!checkin || !checkout || !guests || !nights): only the await servers check it.
MissingStay(v, stayOk) == v = "await" /\ ~stayOk

\* A guard that looks at the Square variables only.
ConfigMissing_squareOnly(v) == v \in {"await", "retry"} /\ ~squareCfg

\* The configuration guard that runs before any outbound call.
\*   await:    Square vars, then Sheets vars, both before validation
\*   retry:    Square vars, after validation and after the key is drawn
\*   detached: none
ConfigMissing(v) ==
    CASE v = "await"    -> ~squareCfg \/ ~sheetsCfg
      [] v = "retry"    -> ~squareCfg
      [] v = "detached" -> FALSE

\* The provider call is made through fetchWithTimeout only by the retry server.
SquareUsesTimeout(v) == v = "retry"

\* A version that goes on when the provider's 2xx answer carries no url.
ProviderFailed_okOnly(okStatus, hasUrl) == ~okStatus

\* if (!sqRes.ok) return 502 ...; if (!squareCheckoutUrl) return 502 ...
ProviderFailed(okStatus, hasUrl) == ~okStatus \/ ~hasUrl

\* Status of the error response for a failed provider call.
ProviderErrorCode(v, okStatus) ==
    CASE v = "retry" -> (IF ~okStatus THEN 400 ELSE 500)
      [] OTHER       -> 502

\* details of the error body for a failed provider call; parsed is what the
\* provider's body turned out to be ("url", "nourl": JSON; "notjson": text).
\*   await:    !ok -> sqJson || sqText;         no url -> sqJson
\*   retry:    !ok -> squareJson || squareText; no url -> squareJson || squareText
\*   detached: !ok -> squareData;               no url -> (no details)
ProviderErrorDetails(v, okStatus, parsed) ==
    CASE v = "await"    -> IF parsed # "notjson" THEN "parsed"
                           ELSE IF ~okStatus THEN "raw" ELSE "null"
      [] v = "retry"    -> IF parsed # "notjson" THEN "parsed" ELSE "raw"
      [] v = "detached" -> IF ~okStatus THEN "parsed" ELSE "none"

\* The keys of the success body.
\*   await:    { ok, bookingRef, url, squareCheckoutUrl }
\*   retry:    { ok, bookingRef, squareCheckoutUrl, sheets }
\*   detached: { ok, bookingRef, squareCheckoutUrl }
\*   /track-event: { ok, bookingRef, sheetsResponse }
SuccessKeys(v, kind) ==
    IF kind = "track" THEN {"ok", "bookingRef", "sheetsResponse"}
    ELSE CASE v = "await"    -> {"ok", "bookingRef", "url", "squareCheckoutUrl"}
           [] v = "retry"    -> {"ok", "bookingRef", "squareCheckoutUrl", "sheets"}
           [] v = "detached" -> {"ok", "bookingRef", "squareCheckoutUrl"}

\* body.sheets of a checkout success response.  Only the server with the retry
\* loop sends one here (sheetsResult):
\*   { status: resp.status, ok: resp.ok, ... }       the last attempt returned
\*   { status: 0, ok: false, error }                 it threw, or no webhook is set
SheetsReport(v, kind, out, st) ==
    IF kind = "checkout" /\ v = "retry"
       THEN (IF out = "returned" /\ st \in 200..299 THEN "ok" ELSE "failed")
    ELSE "none"

\* A check that lets a request without sessionId through.
TrackFieldError_noSession(evt, sid, stay) ==
    IF evt # "string" THEN "missing_event"
    ELSE IF ~stay THEN "missing_stay"
    ELSE "none"

\* /track-event validation:
\*   if (!eventType || typeof eventType !== "string") 400 "Missing eventType"
\*   if (!sessionId || typeof sessionId !== "string") 400 "Missing sessionId"
\*   if (!checkin || !checkout || !guests || !nights) 400 "Missing stay details"
TrackFieldError(evt, sid, stay) ==
    IF evt # "string" THEN "missing_event"
    ELSE IF sid # "string" THEN "missing_session"
    ELSE IF ~stay THEN "missing_stay"
    ELSE "none"

\* A loop without the break.
AttemptSucceeded_never(out, st) == FALSE

\* if (resp.ok) break;   (resp.ok: a 2xx status)
AttemptSucceeded(out, st) == out = "returned" /\ st \in 200..299

\* A loop that allows two retries.
AttemptAllowed_three(attempt) == attempt <= 3

\* for (let attempt = 1; attempt <= 2; attempt++)
AttemptAllowed(attempt) == attempt <= 2

\* The method and payload of the request fetch issues by itself after a redirect
\* (redirect: "follow"): 301/302 turn POST into GET, 303 turns anything into GET,
\* and GET drops the body; 307/308 repeat the request as it was.
FollowMethod(st, meth) ==
    IF (st \in {301, 302} /\ meth = "POST") \/ st = 303 THEN "GET" ELSE meth

FollowCarries(st, meth, carry) ==
    carry /\ meth = "POST" /\ FollowMethod(st, meth) = "POST"

\* The first webhook request of a delivery call:
\*   await:    fetch(url, {method: "POST", body, redirect: "manual", signal})
\*   retry:    fetchWithTimeout(url, {method: "POST", body}) -> redirect: "follow", signal
\*   detached: fetchWithTimeout(url + "?payload=...", {method: "GET"})
FirstMethod(v) == IF v = "detached" THEN "GET" ELSE "POST"

\* redirect: "manual" is set on the first request of postJsonFollowRedirectPreserveMethod only.
ManualRedirect(v, hop) == v = "await" /\ hop = 0

\* Redirects that fetch has followed by itself in this delivery call.
AutoFollowed(v, hop) == IF v = "await" /\ hop > 0 THEN hop - 1 ELSE hop

\* Is the timer cleared as soon as the response headers are in?
\* fetchWithTimeout of the retry server returns the Response and reads the body
\* outside; the other two read the body inside the try.
ClearsTimerAtHeaders(v) == v = "retry"

\* Keys of the stay and of its price that every lead payload has.
StayKeys == {"checkin", "checkout", "guests", "nights", "total", "discountApplied",
             "discountAmount", "preTaxTotal", "taxAmount", "rateMode"}
GuestKeys == {"guestName", "guestEmail", "guestPhone"}

\* The keys of the payload object handed to the webhook.
\*   await:    const leadPayload = { action, secret, bookingRef, createdAt, source,
\*             eventType, sessionId, guestName.., checkin.., lodging, cleaning,
\*             total.., squareCheckoutUrl }         (/track-event: the same keys)
\*   retry:    const payload = { action, secret, bookingRef, source, createdAt,
\*             checkin.., total.., squareCheckoutUrl, guestName, guestEmail, guestPhone }
\*   detached: { action, secret, ...lead } with lead = { bookingRef, checkin..,
\*             total.., squareCheckoutUrl, source, createdAt }
LeadKeys(v) ==
    {"action", "secret", "bookingRef", "createdAt", "source", "squareCheckoutUrl"}
      \cup StayKeys
      \cup CASE v = "await"    -> GuestKeys \cup {"eventType", "sessionId", "lodging", "cleaning"}
             [] v = "retry"    -> GuestKeys
             [] v = "detached" -> {}

\* A payload built with a second call of makeBookingRef().
leadPayload_freshRef(s, v) ==
    [sent |-> TRUE, via |-> IF v = "detached" THEN "query" ELSE "body",
     action |-> IF v = "await" THEN "appendLead" ELSE "upsertLead",
     secretIn |-> "payload", keys |-> LeadKeys(v),
     ref |-> makeBookingRef(now, 0),
     url |-> IF s.kind = "track" THEN 0 ELSE s.url, total |-> s.inp.total]

\* A payload built from a bookingRef kept at module level: the reference of
\* the request that arrived last.
leadPayload_moduleRef(s, v) ==
    [sent |-> TRUE, via |-> IF v = "detached" THEN "query" ELSE "body",
     action |-> IF v = "await" THEN "appendLead" ELSE "upsertLead",
     secretIn |-> "payload", keys |-> LeadKeys(v),
     ref |-> LET held == {r \in Reqs : rq[r].ref # NoRef} IN
             IF held = {} THEN s.ref
             ELSE rq[CHOOSE r \in held : \A q \in held : q <= r].ref,
     url |-> IF s.kind = "track" THEN 0 ELSE s.url, total |-> s.inp.total]

\* A payload that logs the amount charged, in cents, as the total.
leadPayload_centsAsTotal(s, v) ==
    [sent |-> TRUE, via |-> IF v = "detached" THEN "query" ELSE "body",
     action |-> IF v = "await" THEN "appendLead" ELSE "upsertLead",
     secretIn |-> "payload", keys |-> LeadKeys(v),
     ref |-> s.ref,
     url |-> IF s.kind = "track" THEN 0 ELSE s.url,
     total |-> Num(s.sqBody.amount * 1000)]

\* The lead payload of a request, as the handler builds it from its own
\* constants: bookingRef, squareCheckoutUrl (/track-event: ""), and total
\* (await: Number(total); retry: total, a Number already; detached: total).
\* The secret is a key of the payload; the request's only header is Content-Type.
leadPayload(s, v) ==
    [sent |-> TRUE, via |-> IF v = "detached" THEN "query" ELSE "body",
     action |-> IF v = "await" THEN "appendLead" ELSE "upsertLead",
     secretIn |-> "payload", keys |-> LeadKeys(v),
     ref |-> s.ref,
     url |-> IF s.kind = "track" THEN 0 ELSE s.url, total |-> s.inp.total]

\* JSON.stringify(payloadObj) as a string of bytes: one byte for each key the
\* object has, in the order of AllKeys, then the bytes of the reference and of
\* the checkout URL.
AllKeys == <<"action", "secret", "bookingRef", "createdAt", "source",
             "eventType", "sessionId", "guestName", "guestEmail", "guestPhone",
             "checkin", "checkout", "guests", "nights", "lodging", "cleaning",
             "total", "discountApplied", "discountAmount", "preTaxTotal",
             "taxAmount", "rateMode", "squareCheckoutUrl">>
KeyIndexes(keys) == SelectSeq([i \in 1..Len(AllKeys) |-> i], LAMBDA i : AllKeys[i] \in keys)
KeyBytes(ix) == [i \in 1..Len(ix) |-> 11 * ix[i]]
stringify(lead) ==
    KeyBytes(KeyIndexes(lead.keys)) \o <<lead.ref[1] + 48, lead.ref[2] + 48, lead.url + 48>>

\* Buffer.from(text, "utf8").toString("base64url"): every three bytes become
\* four 6-bit symbols, a last group of one or two bytes becomes two or three
\* symbols, and there is no padding.
RECURSIVE base64url(_)
base64url(b) ==
    IF Len(b) = 0 THEN <<>>
    ELSE IF Len(b) = 1 THEN <<b[1] \div 4, (b[1] % 4) * 16>>
    ELSE IF Len(b) = 2
       THEN <<b[1] \div 4, (b[1] % 4) * 16 + b[2] \div 16, (b[2] % 16) * 4>>
    ELSE <<b[1] \div 4, (b[1] % 4) * 16 + b[2] \div 16,
           (b[2] % 16) * 4 + b[3] \div 64, b[3] % 64>>
         \o base64url(SubSeq(b, 4, Len(b)))

\* What the webhook does with the parameter: Buffer.from(payload, "base64url").
RECURSIVE base64urlDecode(_)
base64urlDecode(c) ==
    IF Len(c) < 2 THEN <<>>
    ELSE IF Len(c) = 2 THEN <<c[1] * 4 + c[2] \div 16>>
    ELSE IF Len(c) = 3
       THEN <<c[1] * 4 + c[2] \div 16, (c[2] % 16) * 16 + c[3] \div 4>>
    ELSE <<c[1] * 4 + c[2] \div 16, (c[2] % 16) * 16 + c[3] \div 4,
           (c[3] % 4) * 64 + c[4]>>
         \o base64urlDecode(SubSeq(c, 5, Len(c)))

\* url.searchParams.set("payload", payload): the query parameter of the GET.
payloadParam(lead) == base64url(stringify(lead))

\* start of a delivery call (att is the attempt it starts)
StartFetch(s, v, att) ==
    [s EXCEPT !.pc = "wh_hdr", !.att = att, !.hop = 0,
              !.lead = leadPayload(s, v),
              !.meth = FirstMethod(v), !.carry = TRUE,
              !.tmr = TRUE, !.sig = TRUE,
              !.st = 0, !.ok = FALSE, !.out = "none"]

Respond(s, code, ok, url) ==
    [s EXCEPT !.resp = Reply(code, ok, url), !.nresp = @ + 1]

\* res.status(code).json({ ok: false, error, details })
RespondError(s, code, err, details) ==
    [Respond(s, code, FALSE, 0) EXCEPT !.resp.err = err, !.resp.details = details]

\* res.json({ ok: true, bookingRef, ... })
RespondSuccess(s, v) ==
    [Respond(s, 200, TRUE, s.url) EXCEPT
        !.resp.keys = SuccessKeys(v, s.kind),
        !.resp.ref = s.ref,
        !.resp.sheets = SheetsReport(v, s.kind, s.out, s.st)]

\* The handler (or the detached promise chain) ends: its locals are gone.
Finish(s) == [s EXCEPT !.pc = "done", !.tmr = FALSE, !.sig = FALSE, !.sqOk = FALSE,
                       !.hop = 0, !.meth = "-", !.carry = FALSE]

\* What follows the provider's usable answer (payment_link.url is in s.url).
AfterSquare(s, v) ==
    CASE v = "await" ->
            StartFetch(s, v, 1)
      [] v = "retry" ->
            IF sheetsCfg THEN StartFetch(s, v, 1)
            ELSE Finish(RespondSuccess([s EXCEPT !.out = "unset"], v))
      [] v = "detached" ->
            \* writeLeadToSheets_(...).then(log).catch(log); res.json({ok: true, ...})
            IF sheetsCfg THEN StartFetch(RespondSuccess(s, v), v, 1)
            ELSE Finish([RespondSuccess(s, v)
                           EXCEPT !.out = "skipped", !.logged = TRUE])

\* A promise chain without the .catch: a rejection is logged by nobody.
DetachedSettled_noCatch(s, out) ==
    IF out = "returned" THEN [s EXCEPT !.logged = TRUE] ELSE s

\* A .catch that answers the caller as well.
DetachedSettled_answers(s, out) ==
    IF out = "returned" THEN [s EXCEPT !.logged = TRUE]
    ELSE RespondError([s EXCEPT !.logged = TRUE], 500, "server", "none")

\* The detached promise settles:
\*   .then((resp) => console.log("Sheets write:", ...))
\*   .catch((err) => console.error("Sheets write failed:", ...))
DetachedSettled(s, out) == [s EXCEPT !.logged = TRUE]

\* What follows the end of a delivery call: out is "returned", "threw" (the
\* fetch rejected) or "aborted" (the timeout's AbortError).
AfterDelivery(s0, v, out) ==
    LET s == [s0 EXCEPT !.out = out, !.tmr = FALSE, !.sig = FALSE,
                        !.hop = 0, !.meth = "-", !.carry = FALSE] IN
    CASE s.kind = "track" ->
            \* return res.json({ ok: true, bookingRef, sheetsResponse })
            \* catch (err) -> res.status(500)
            IF out = "returned" THEN Finish(RespondSuccess(s, v))
            ELSE Finish(RespondError(s, 500, "server", "none"))
      [] s.kind = "checkout" /\ v = "await" ->
            IF out = "returned" THEN Finish(RespondSuccess(s, v))
            ELSE Finish(RespondError(s, 500, "server", "none"))
      [] s.kind = "checkout" /\ v = "retry" ->
            \* if (resp.ok) break; ... if (attempt === 1) await sleep(500);
            IF AttemptSucceeded(out, s.st)
               THEN Finish(RespondSuccess(s, v))
            ELSE IF s.att = 1 /\ AttemptAllowed(s.att + 1)
               THEN [s EXCEPT !.pc = "backoff"]
            ELSE IF AttemptAllowed(s.att + 1)
               THEN StartFetch(s, v, s.att + 1)
            ELSE Finish(RespondSuccess(s, v))
      [] s.kind = "checkout" /\ v = "detached" ->
            Finish(DetachedSettled(s, out))

----------------------------------------------------------------------------
(* The booking widget: dates *)

\* A JavaScript Date is its time value; the model counts it in hours (every
\* time the widget handles is a whole hour) of the zone's standard time since
\* 1970-01-01.  Zones: one without daylight saving, one with the US rule
\* (second Sunday of March 02:00 to first Sunday of November 02:00).
Zones == {"fixed", "dst"}

IsLeap(y) == y % 4 = 0 /\ (y % 100 # 0 \/ y % 400 = 0)

DaysInMonth(y, m) ==
    IF m = 2 THEN (IF IsLeap(y) THEN 29 ELSE 28)
    ELSE IF m \in {4, 6, 9, 11} THEN 30 ELSE 31

LeapsThrough(y) == (y \div 4) - (y \div 100) + (y \div 400)

\* days from 1970-01-01 to January 1 of y
DaysBeforeYear(y) == 365 * (y - 1970) + LeapsThrough(y - 1) - LeapsThrough(1969)

RECURSIVE DaysBeforeMonth(_, _)
DaysBeforeMonth(y, m) ==
    IF m = 1 THEN 0 ELSE DaysBeforeMonth(y, m - 1) + DaysInMonth(y, m - 1)

\* The day number of year y, month m (1..12), day d; a d past the end of the
\* month runs on into the next, as new Date(y, m-1, d) does.
Serial(y, m, d) == DaysBeforeYear(y) + DaysBeforeMonth(y, m) + d - 1

\* The calendar date of a day number.  The days are counted from 0000-03-01
\* (719468 days before 1970-01-01) and split into 400-year eras of 146097
\* days, the year of the era, the day of that year (which starts on March 1)
\* and the month (0 = March).
CivilOfMonth(y0, doy, mp) ==
    [y |-> y0 + (IF mp < 10 THEN 0 ELSE 1),
     m |-> IF mp < 10 THEN mp + 3 ELSE mp - 9,
     d |-> doy - ((153 * mp + 2) \div 5) + 1]

CivilOfYearDay(y0, doy) == CivilOfMonth(y0, doy, (5 * doy + 2) \div 153)

CivilOfYear(era, doe, yoe) ==
    CivilOfYearDay(yoe + 400 * era, doe - (365 * yoe + (yoe \div 4) - (yoe \div 100)))

CivilOfEra(era, doe) ==
    CivilOfYear(era, doe,
                (doe - (doe \div 1460) + (doe \div 36524) - (doe \div 146096)) \div 365)

CivilOf(z) == CivilOfEra(z \div 146097, z % 146097)

Civil(n) == CivilOf(n + 719468)

\* Day of the week of a day number, 0 = Sunday (1970-01-01 was a Thursday).
WeekDay(n) == (n + 4) % 7

\* The days daylight saving starts and ends on, by year.
DstRule ==
    [y \in (FirstYear - 1)..(LastYear + 1) |->
       [start |-> CHOOSE n \in Serial(y, 3, 8)..Serial(y, 3, 14) : WeekDay(n) = 0,
        end   |-> CHOOSE n \in Serial(y, 11, 1)..Serial(y, 11, 7) : WeekDay(n) = 0]]
DstStartDay(y) == DstRule[y].start
DstEndDay(y) == DstRule[y].end

\* Is daylight saving in force at time t?  It starts at 02:00 standard time
\* and ends at 02:00 daylight time, which is 01:00 standard time.
InDstOfYear(t, y) == 24 * DstStartDay(y) + 2 <= t /\ t < 24 * DstEndDay(y) + 1

InDst(tz, t) == tz = "dst" /\ InDstOfYear(t, Civil(t \div 24).y)

\* The zone's wall clock at time t, in hours.
Local(tz, t) == IF InDst(tz, t) THEN t + 1 ELSE t

\* Local midnight of the day that starts at hour mid of standard time.
LocalMidnight(tz, mid) == IF InDst(tz, mid - 1) THEN mid - 1 ELSE mid

\* new Date(y, m-1, d): local midnight.
NewDate(tz, y, m, d) == LocalMidnight(tz, 24 * Serial(y, m, d))

\* getFullYear(), getMonth()+1, getDate() and getDay() of a Date.
LocalDate(tz, t) == Civil(Local(tz, t) \div 24)
getDay(tz, t) == WeekDay(Local(tz, t) \div 24)

----------------------------------------------------------------------------
(* The booking widget: the quote *)

CLEANING == 150      \* var CLEANING = 150;
TAX_RATE == 7        \* var TAX_RATE = 0.07;  (per cent)

\* Money is counted in thousandths of a dollar: every amount of a quote is a
\* whole number of them, so the arithmetic below is exact.
Mills(dollars) == dollars * 1000

NoDate == [y |-> 0, m |-> 0, d |-> 0]
NoTime == -1

\* mdKey(d): pad2(month) + "-" + pad2(day).  Two such keys compare as strings
\* the way the numbers 100 * month + day compare.
mdOf(c) == 100 * c.m + c.d
mdKey(tz, t) == mdOf(LocalDate(tz, t))

\* isoKey(d)
isoKey(tz, t) == LocalDate(tz, t)

\* if (dt.getFullYear() !== y || dt.getMonth() !== m-1 || dt.getDate() !== d) return null;
sameDayOrNull(tz, v, dt) == IF LocalDate(tz, dt) # v THEN NoTime ELSE dt

\* parseDateInput(v): the Date of a "y-m-d" input, null when a part is missing
\* or zero or when the Date built from it is another day.
parseDateInput(tz, v) ==
    IF v.y = 0 \/ v.m = 0 \/ v.d = 0 THEN NoTime
    ELSE sameDayOrNull(tz, v, NewDate(tz, v.y, v.m, v.d))

\* nightsBetween(ci, co): Math.round(ms / 86400000)
nightsBetween(ci, co) == ((co - ci) + 12) \div 24

\* isWeekend(date): day === 5 || day === 6
isWeekend(tz, t) == getDay(tz, t) \in {5, 6}

\* A table whose peak window starts on April 2.
nightlyRate_lateApril(tz, t) ==
    LET md == mdKey(tz, t)
        wknd == isWeekend(tz, t)
    IN IF md > 401 /\ md <= 831 THEN (IF wknd THEN 325 ELSE 300)
       ELSE IF (md >= 301 /\ md <= 331) \/ (md >= 901 /\ md <= 1031)
          THEN (IF wknd THEN 275 ELSE 250)
       ELSE (IF wknd THEN 250 ELSE 225)

\* The rate table of nightlyRate: peak, shoulder, off season, by the key of
\* the date and whether it is a weekend night.
rateFor(md, wknd) ==
    IF md >= 401 /\ md <= 831 THEN (IF wknd THEN 325 ELSE 300)
    ELSE IF (md >= 301 /\ md <= 331) \/ (md >= 901 /\ md <= 1031)
       THEN (IF wknd THEN 275 ELSE 250)
    ELSE (IF wknd THEN 250 ELSE 225)

\* nightlyRate(date)
nightlyRate(tz, t) == rateFor(mdKey(tz, t), isWeekend(tz, t))

\* The Date the pricing loops look at for night i:
\* new Date(ci.getTime() + i*86400000)
NightDate(ci, i) == ci + 24 * i

\* A peak window that starts on April 2.
inPeak_fromApril2(md) == md > 401 /\ md <= 831

\* if (md >= "04-01" && md <= "08-31") return true;
inPeak(md) == md >= 401 /\ md <= 831

\* inDiscountWindow(ci, co)
inDiscountWindow(tz, ci, co) ==
    /\ nightsBetween(ci, co) >= 3
    /\ \E i \in 0..(nightsBetween(ci, co) - 1) : inPeak(mdKey(tz, NightDate(ci, i)))

RECURSIVE lodgingOf(_, _, _)
\* for (i = 0; i < nights; i++) lodging += nightlyRate(new Date(...))
lodgingOf(tz, ci, nights) ==
    IF nights <= 0 THEN 0
    ELSE lodgingOf(tz, ci, nights - 1) + nightlyRate(tz, NightDate(ci, nights - 1))

\* A tax taken on whole dollars only.
taxOf_wholeDollars(preTax) == ((((preTax \div 1000) * TAX_RATE) \div 100)) * 1000

\* var tax = preTax * TAX_RATE;
taxOf(preTax) == (preTax * TAX_RATE) \div 100

NoBooking == [set |-> FALSE, checkin |-> NoDate, checkout |-> NoDate, guests |-> 0,
              nights |-> 0, lodging |-> 0, cleaning |-> 0, preTaxTotal |-> 0,
              discountApplied |-> FALSE, discountAmount |-> 0, taxAmount |-> 0,
              grandTotal |-> 0, priced |-> <<>>]

\* lastBooking = { ... } of the submit handler, amounts in thousandths of a
\* dollar, from the nights, the lodging and the discount decision the handler
\* has computed; priced lists, for each night, the date nightlyRate was asked
\* about and its answer.
quoteOf(tz, ci, co, guests, nights, lodging, applied) ==
    LET subtotal == Mills(lodging + CLEANING)
        discount == IF applied THEN (subtotal * 10) \div 100 ELSE 0
        preTax   == subtotal - discount
        tax      == taxOf(preTax)
    IN [set |-> TRUE, checkin |-> isoKey(tz, ci), checkout |-> isoKey(tz, co),
        guests |-> guests, nights |-> nights,
        lodging |-> Mills(lodging), cleaning |-> Mills(CLEANING),
        preTaxTotal |-> preTax, discountApplied |-> applied,
        discountAmount |-> discount, taxAmount |-> tax,
        grandTotal |-> preTax + tax,
        priced |-> [i \in 1..nights |->
                      [date |-> LocalDate(tz, NightDate(ci, i - 1)),
                       day  |-> getDay(tz, NightDate(ci, i - 1)),
                       rate |-> nightlyRate(tz, NightDate(ci, i - 1))]]]

lastBookingOf(tz, ci, co, guests) ==
    quoteOf(tz, ci, co, guests, nightsBetween(ci, co),
            lodgingOf(tz, ci, nightsBetween(ci, co)), inDiscountWindow(tz, ci, co))

\* Guest counts typed into the form: none, the largest allowed, too many.
GuestCounts == {0, 9, 10}

\* The days a quote is asked for: one inside the period the Early Booking
\* Offer names (2025-11-28 to 2026-01-15) and one after it.
QuoteDays == {Serial(2025, 12, 15), Serial(2026, 2, 1)}

\* The "y-m-d" strings entered as check-in: every day number 1..31 of every
\* month of the years, so also days that do not exist.
DateInputs == [y : FirstYear..LastYear, m : 1..12, d : 1..31]

NoWidget == [tz |-> "fixed", contactOk |-> FALSE, checkin |-> NoDate, checkout |-> NoDate,
             guests |-> 0, submitted |-> FALSE, error |-> "none", lastBooking |-> NoBooking,
             paid |-> FALSE, today |-> 0]

\* The form as the visitor filled it in; the check-out is the check-in plus a
\* number of days (none, for a check-out that is not after the check-in).
WidgetInit ==
    /\ variant = "await" /\ squareCfg = TRUE /\ sheetsCfg = TRUE /\ now = 0 /\ uuids = 0
    /\ rq = [r \in Reqs |-> Idle]
    /\ calc = NoCalc
    /\ \E tz \in Zones, contactOk \in BOOLEAN, ci \in DateInputs,
          k \in 0..MaxNights, guests \in GuestCounts, today \in QuoteDays :
         widget = [NoWidget EXCEPT
                     !.today = today,
                     !.tz = tz, !.contactOk = contactOk, !.checkin = ci,
                     !.checkout = Civil(Serial(ci.y, ci.m, ci.d) + k),
                     !.guests = guests]

\* The checks of the submit handler, in its order, on the parsed dates.
submitOutcome(w, ciDate, coDate) ==
    IF ~w.contactOk THEN [w EXCEPT !.error = "contact"]
    ELSE IF ciDate = NoTime \/ coDate = NoTime THEN [w EXCEPT !.error = "dates"]
    ELSE IF coDate <= ciDate THEN [w EXCEPT !.error = "order"]
    ELSE IF w.guests = 0 \/ w.guests < 1 \/ w.guests > 9
       THEN [w EXCEPT !.error = "guests"]
    ELSE IF nightsBetween(ciDate, coDate) <= 0 THEN [w EXCEPT !.error = "nights"]
    ELSE [w EXCEPT !.lastBooking = lastBookingOf(w.tz, ciDate, coDate, w.guests)]

\* form.addEventListener("submit", ...): "See Price".  setError(null) comes
\* first; a check that fails returns through setError(msg) and leaves
\* lastBooking as it was.
SubmitForm ==
    /\ ~widget.submitted /\ ~widget.paid
    /\ widget' = submitOutcome([widget EXCEPT !.submitted = TRUE, !.error = "none"],
                               parseDateInput(widget.tz, widget.checkin),
                               parseDateInput(widget.tz, widget.checkout))
    /\ UNCHANGED <<variant, squareCfg, sheetsCfg, now, uuids, rq, calc>>

\* The visitor changes the guest count after a submission; the form can be
\* submitted again.
EditGuests ==
    /\ widget.submitted /\ ~widget.paid
    /\ \E g \in GuestCounts \ {widget.guests} :
          widget' = [widget EXCEPT !.guests = g, !.submitted = FALSE]
    /\ UNCHANGED <<variant, squareCfg, sheetsCfg, now, uuids, rq, calc>>

\* payButton.addEventListener("click", ...): if (!lastBooking) return; then
\* the checkout request is sent with the fields of lastBooking.
PayClick ==
    /\ widget.lastBooking.set /\ ~widget.paid
    /\ widget' = [widget EXCEPT !.paid = TRUE]
    /\ UNCHANGED <<variant, squareCfg, sheetsCfg, now, uuids, rq, calc>>

WidgetNext == SubmitForm \/ EditGuests \/ PayClick

WidgetSpec == WidgetInit /\ [][WidgetNext]_vars

----------------------------------------------------------------------------
(* Helper functions of the servers, called on their own *)

\* A toCents that lets zero through.
toCentsStrict_allowsZero(total) ==
    IF ~total.fin \/ total.v < 0 THEN Null ELSE Cents((total.v + 5) \div 10)

\* The toCents of the oldest server, which also refuses what is not positive:
\* if (!Number.isFinite(num) || num <= 0) return null;
toCentsStrict(total) ==
    IF ~total.fin \/ total.v <= 0 THEN Null ELSE Cents((total.v + 5) \div 10)

\* A string is the sequence of its characters.
DigitChars == {"1", "4", "5"}
IsDigit(c) == c \in DigitChars

RECURSIVE trimStart(_)
trimStart(s) == IF s # <<>> /\ Head(s) = " " THEN trimStart(Tail(s)) ELSE s

RECURSIVE trimEnd(_)
trimEnd(s) ==
    IF s # <<>> /\ s[Len(s)] = " " THEN trimEnd(SubSeq(s, 1, Len(s) - 1)) ELSE s

\* String(input || "").trim()
trim(s) == trimEnd(trimStart(s))

\* s.replace(/[^\d]/g, "")
digitsOf(s) == SelectSeq(s, IsDigit)

\* s.startsWith("+")
startsWithPlus(s) == s # <<>> /\ Head(s) = "+"

\* A version that takes every number of ten digits or more for a US number.
normalized_alwaysUS(s, digits) ==
    IF Len(digits) >= 10 THEN <<"+", "1">> \o digits ELSE s

\* The four returns of normalizePhoneE164, on the trimmed string and its digits.
normalized(s, digits) ==
    IF Len(digits) = 10 THEN <<"+", "1">> \o digits
    ELSE IF Len(digits) = 11 /\ digits[1] = "1" THEN <<"+">> \o digits
    ELSE IF startsWithPlus(s) /\ Len(digits) >= 10 THEN <<"+">> \o digits
    ELSE s

\* function normalizePhoneE164(input)
normalizePhoneE164(input) == normalized(trim(input), digitsOf(trim(input)))

\* function normalizePhone_(v) of the widget: the same four returns.
normalizePhone_(v) == normalized(trim(v), digitsOf(trim(v)))

\* The phone numbers handed to normalizePhoneE164: n digits, the first one d1
\* and the others 5, after an optional "+", with an optional dash after the
\* third digit and optional blanks around.
PhoneDigits(d1, n) == [i \in 1..n |-> IF i = 1 THEN d1 ELSE "5"]
Dashed(ds, dash) ==
    IF dash /\ Len(ds) > 3 THEN SubSeq(ds, 1, 3) \o <<"-">> \o SubSeq(ds, 4, Len(ds)) ELSE ds
PhoneInput(blank, plus, d1, n, dash) ==
    (IF blank THEN <<" ">> ELSE <<>>) \o (IF plus THEN <<"+">> ELSE <<>>)
      \o Dashed(PhoneDigits(d1, n), dash) \o (IF blank THEN <<" ">> ELSE <<>>)
PhoneInputs ==
    {PhoneInput(blank, plus, d1, n, dash) :
        blank \in BOOLEAN, plus \in BOOLEAN, d1 \in {"1", "4"},
        n \in 0..MaxDigits, dash \in BOOLEAN}

\* The amounts handed to toCents, in tenths of a cent, and a non-finite one.
Amounts == {NaN} \cup {Num(v) : v \in (0 - MaxAmount)..MaxAmount}

\* One call, with its argument, about to be made.
CalcInit ==
    /\ variant = "await" /\ squareCfg = TRUE /\ sheetsCfg = TRUE /\ now = 0 /\ uuids = 0
    /\ rq = [r \in Reqs |-> Idle]
    /\ widget = NoWidget
    /\ \/ \E fn \in {"toCents", "toCentsStrict"}, a \in Amounts :
            calc = [NoCalc EXCEPT !.fn = fn, !.amount = a]
       \/ \E fn \in {"normalizePhoneE164", "normalizePhone_"}, p \in PhoneInputs :
            calc = [NoCalc EXCEPT !.fn = fn, !.phone = p]

CallToCents ==
    /\ calc.fn = "toCents" /\ ~calc.done
    /\ calc' = [calc EXCEPT !.done = TRUE, !.cents = toCents(calc.amount)]
    /\ UNCHANGED <<variant, squareCfg, sheetsCfg, now, uuids, rq, widget>>

CallToCentsStrict ==
    /\ calc.fn = "toCentsStrict" /\ ~calc.done
    /\ calc' = [calc EXCEPT !.done = TRUE, !.cents = toCentsStrict(calc.amount)]
    /\ UNCHANGED <<variant, squareCfg, sheetsCfg, now, uuids, rq, widget>>

CallNormalizePhone ==
    /\ calc.fn = "normalizePhoneE164" /\ ~calc.done
    /\ calc' = [calc EXCEPT !.done = TRUE, !.out = normalizePhoneE164(calc.phone)]
    /\ UNCHANGED <<variant, squareCfg, sheetsCfg, now, uuids, rq, widget>>

\* var guestPhone = normalizePhone_(phoneInput.value): the widget's submit handler.
CallNormalizePhone_ ==
    /\ calc.fn = "normalizePhone_" /\ ~calc.done
    /\ calc' = [calc EXCEPT !.done = TRUE, !.out = normalizePhone_(calc.phone)]
    /\ UNCHANGED <<variant, squareCfg, sheetsCfg, now, uuids, rq, widget>>

\* The server is handed a number that was normalized before:
\* const phoneE164 = guestPhone ? normalizePhoneE164(guestPhone) : "";
ServerNormalizes ==
    /\ calc.fn \in {"normalizePhoneE164", "normalizePhone_"} /\ calc.done /\ ~calc.twice
    /\ calc' = [calc EXCEPT !.twice = TRUE,
                            !.out2 = IF calc.out = <<>> THEN <<>>
                                     ELSE normalizePhoneE164(calc.out)]
    /\ UNCHANGED <<variant, squareCfg, sheetsCfg, now, uuids, rq, widget>>

CalcNext ==
    \/ CallToCents \/ CallToCentsStrict \/ CallNormalizePhone
    \/ CallNormalizePhone_ \/ ServerNormalizes

CalcSpec == CalcInit /\ [][CalcNext]_vars

----------------------------------------------------------------------------
(* The server *)

Init ==
    /\ variant \in Variants
    /\ squareCfg \in BOOLEAN
    /\ sheetsCfg \in BOOLEAN
    /\ now = 0
    /\ uuids = 0
    /\ rq = [r \in Reqs |-> Idle]
    /\ widget = NoWidget
    /\ calc = NoCalc

Set(r, s) == rq' = [rq EXCEPT ![r] = s]

\* What crypto.randomBytes(3) can return.  Its values are interchangeable (the
\* handlers only put them into the reference), so a value that no reference
\* holds yet is taken to be the smallest such value.
randomBytes ==
    {v \in 0..(NumRnd - 1) :
        v = 0 \/ \E r \in Reqs : rq[r].ref # NoRef /\ rq[r].ref[2] = v - 1}

\* Slots are taken in order (the slots are interchangeable).
Free(r) == rq[r].pc = "idle" /\ \A q \in Reqs : q < r => rq[q].pc # "idle"

\* Date.now() advances between handler runs.  The clock is read only when a
\* request arrives (makeBookingRef), so it is followed while one can arrive.
Tick ==
    /\ now < LastNow
    /\ \E r \in Reqs : rq[r].pc = "idle"
    /\ now' = now + 1
    /\ UNCHANGED <<variant, squareCfg, sheetsCfg, uuids, rq, widget, calc>>

\* app.post("/create-checkout"): from the request's arrival to the first await.
CreateCheckout(r) ==
    /\ Free(r)
    /\ \E total \in Totals, stayOk \in BOOLEAN, rnd \in randomBytes :
         LET s0   == [rq[r] EXCEPT !.kind = "checkout",
                                   !.inp = [NoInput EXCEPT !.total = total, !.stay = stayOk]]
             ref  == makeBookingRef(now, rnd)
             body == squareBody(randomUUID, ref, toCents(total).v)
             sent == [s0 EXCEPT !.pc = "sq_hdr", !.ref = ref, !.sqBody = body,
                                !.sqSent = @ + 1,
                                !.tmr = SquareUsesTimeout(variant),
                                !.sig = SquareUsesTimeout(variant)]
         IN
         CASE variant = "await" ->
                 IF ConfigMissing(variant)
                    THEN Set(r, Finish(RespondError(s0, 500, "config", "none")))
                         /\ UNCHANGED uuids
                 ELSE IF InvalidTotal(variant, total)
                    THEN Set(r, Finish(RespondError(s0, 400, "invalid_total", "none")))
                         /\ UNCHANGED uuids
                 ELSE IF MissingStay(variant, stayOk)
                    THEN Set(r, Finish(RespondError(s0, 400, "missing_stay", "none")))
                         /\ UNCHANGED uuids
                 ELSE Set(r, sent) /\ uuids' = uuids + 1
           [] variant = "retry" ->
                 IF InvalidTotal(variant, total)
                    THEN Set(r, Finish(RespondError(s0, 400, "invalid_total", "none")))
                         /\ UNCHANGED uuids
                 ELSE IF ConfigMissing(variant)
                    \* bookingRef and idempotencyKey are already drawn here
                    THEN /\ Set(r, Finish(RespondError([s0 EXCEPT !.ref = ref],
                                                       500, "config", "none")))
                         /\ uuids' = uuids + 1
                 ELSE Set(r, sent) /\ uuids' = uuids + 1
           [] variant = "detached" ->
                 IF InvalidTotal(variant, total)
                    THEN Set(r, Finish(RespondError(s0, 400, "invalid_total", "none")))
                         /\ UNCHANGED uuids
                 ELSE Set(r, sent) /\ uuids' = uuids + 1
    /\ UNCHANGED <<variant, squareCfg, sheetsCfg, now, widget, calc>>

\* app.post("/track-event") (await servers only): up to the webhook call.
TrackEvent(r) ==
    /\ Free(r)
    /\ variant = "await"
    /\ \E evt \in FieldShapes, sid \in FieldShapes, stayOk \in BOOLEAN,
          rnd \in randomBytes :
         LET s0 == [rq[r] EXCEPT !.kind = "track",
                                 !.inp = [NoInput EXCEPT !.evt = evt, !.sid = sid,
                                                        !.stay = stayOk]]
             err == TrackFieldError(evt, sid, stayOk)
         IN
         IF ~sheetsCfg
            THEN Set(r, Finish(RespondError(s0, 500, "config", "none")))
         ELSE IF err # "none"
            THEN Set(r, Finish(RespondError(s0, 400, err, "none")))
         ELSE Set(r, StartFetch([s0 EXCEPT !.ref = makeBookingRef(now, rnd)], variant, 1))
    /\ UNCHANGED <<variant, squareCfg, sheetsCfg, now, uuids, widget, calc>>

\* The provider's response headers arrive: await fetch(...) resolves.
SquareHeaders(r) ==
    /\ rq[r].pc = "sq_hdr"
    /\ \E okStatus \in BOOLEAN :
         Set(r, [rq[r] EXCEPT !.pc = "sq_body", !.sqOk = okStatus,
                              !.tmr = FALSE, !.sig = FALSE])
    /\ UNCHANGED <<variant, squareCfg, sheetsCfg, now, uuids, widget, calc>>

\* The provider's body is read, and the handler runs to its next await.
SquareBodyRead(r) ==
    /\ rq[r].pc = "sq_body"
    /\ \E parsed \in {"url", "nourl", "notjson"} :
         LET s == rq[r]
             hasUrl == parsed = "url"
         IN
         IF variant = "detached" /\ parsed = "notjson"
            \* await squareResp.json() throws: catch -> 500 "Server error."
            THEN Set(r, Finish(RespondError(s, 500, "server", "none")))
         ELSE IF ProviderFailed(s.sqOk, hasUrl)
            THEN Set(r, Finish(RespondError(s, ProviderErrorCode(variant, s.sqOk), "upstream",
                                            ProviderErrorDetails(variant, s.sqOk, parsed))))
         \* squareCheckoutUrl = sqJson?.payment_link?.url: the provider's link for
         \* this request (named after the request's idempotency key), or undefined
         ELSE Set(r, AfterSquare(
                  [s EXCEPT !.url = IF hasUrl THEN s.sqBody.idempotency_key ELSE 0],
                  variant))
    /\ UNCHANGED <<variant, squareCfg, sheetsCfg, now, uuids, widget, calc>>

\* The provider call fails (connection error): the catch answers 500.
SquareFails(r) ==
    /\ rq[r].pc \in {"sq_hdr", "sq_body"}
    /\ Set(r, Finish(RespondError(rq[r], 500, "server", "none")))
    /\ UNCHANGED <<variant, squareCfg, sheetsCfg, now, uuids, widget, calc>>

\* controller.abort() fires on the provider call: the catch answers 500.
SquareTimeout(r) ==
    /\ rq[r].pc \in {"sq_hdr", "sq_body"}
    /\ rq[r].tmr /\ rq[r].sig
    /\ Set(r, Finish(RespondError(rq[r], 500, "server", "none")))
    /\ UNCHANGED <<variant, squareCfg, sheetsCfg, now, uuids, widget, calc>>

\* The webhook's answer that fetch hands to the caller: a final status, or a
\* redirect status that is not followed (no Location header).  A webhook that
\* answers 200 to a request carrying the lead may have recorded it, and says so
\* in its JSON body (ok: true).
WebhookAnswers(r) ==
    /\ rq[r].pc = "wh_hdr"
    /\ \E st \in FinalStatuses \cup BareRedirects, recorded \in BOOLEAN :
         /\ recorded => (rq[r].carry /\ st = 200)
         /\ Set(r, [rq[r] EXCEPT
                      !.pc = "wh_body", !.st = st, !.ok = recorded,
                      !.rec = IF recorded THEN @ + 1 ELSE @,
                      !.tmr = IF ClearsTimerAtHeaders(variant) THEN FALSE ELSE @,
                      !.sig = IF ClearsTimerAtHeaders(variant) THEN FALSE ELSE @])
    /\ UNCHANGED <<variant, squareCfg, sheetsCfg, now, uuids, widget, calc>>

\* The webhook answers with a redirect that carries a Location header.
WebhookRedirects(r) ==
    /\ rq[r].pc = "wh_hdr"
    /\ \E st \in RedirectStatuses :
         LET s == rq[r] IN
         IF ManualRedirect(variant, s.hop)
            \* const res2 = await fetch(loc, { method: "POST", headers, body })
            THEN Set(r, [s EXCEPT !.hop = @ + 1, !.meth = "POST", !.carry = TRUE,
                                  !.sig = FALSE])
         ELSE IF AutoFollowed(variant, s.hop) < MaxFollow
            \* fetch follows the redirect by itself
            THEN Set(r, [s EXCEPT !.hop = @ + 1,
                                  !.meth = FollowMethod(st, s.meth),
                                  !.carry = FollowCarries(st, s.meth, s.carry)])
         \* fetch gives up: "redirect count exceeded" rejects the call
         ELSE Set(r, AfterDelivery(s, variant, "threw"))
    /\ UNCHANGED <<variant, squareCfg, sheetsCfg, now, uuids, widget, calc>>

\* The webhook's body is read: the delivery call returns {status, json, raw}.
WebhookBodyRead(r) ==
    /\ rq[r].pc = "wh_body"
    /\ Set(r, AfterDelivery(rq[r], variant, "returned"))
    /\ UNCHANGED <<variant, squareCfg, sheetsCfg, now, uuids, widget, calc>>

\* The webhook call is lost (connection error); the lead may have been recorded
\* before the response was lost.
WebhookFails(r) ==
    /\ rq[r].pc \in {"wh_hdr", "wh_body"}
    /\ \E recorded \in BOOLEAN :
         /\ recorded => (rq[r].carry /\ rq[r].pc = "wh_hdr")
         /\ Set(r, AfterDelivery([rq[r] EXCEPT !.rec = IF recorded THEN @ + 1 ELSE @],
                                 variant, "threw"))
    /\ UNCHANGED <<variant, squareCfg, sheetsCfg, now, uuids, widget, calc>>

\* setTimeout(() => controller.abort(), timeoutMs) fires while a request that
\* carries the signal is pending: the call rejects with AbortError.
WebhookTimeout(r) ==
    /\ rq[r].pc \in {"wh_hdr", "wh_body"}
    /\ rq[r].tmr /\ rq[r].sig
    /\ \E recorded \in BOOLEAN :
         /\ recorded => (rq[r].carry /\ rq[r].pc = "wh_hdr")
         /\ Set(r, AfterDelivery([rq[r] EXCEPT !.rec = IF recorded THEN @ + 1 ELSE @],
                                 variant, "aborted"))
    /\ UNCHANGED <<variant, squareCfg, sheetsCfg, now, uuids, widget, calc>>

\* await sleep(500) ends and the loop makes its next attempt.
BackoffDone(r) ==
    /\ rq[r].pc = "backoff"
    /\ Set(r, StartFetch(rq[r], variant, rq[r].att + 1))
    /\ UNCHANGED <<variant, squareCfg, sheetsCfg, now, uuids, widget, calc>>

Next ==
    \/ Tick
    \/ \E r \in Reqs : CreateCheckout(r)
    \/ \E r \in Reqs : TrackEvent(r)
    \/ \E r \in Reqs : SquareHeaders(r)
    \/ \E r \in Reqs : SquareBodyRead(r)
    \/ \E r \in Reqs : SquareFails(r)
    \/ \E r \in Reqs : SquareTimeout(r)
    \/ \E r \in Reqs : WebhookAnswers(r)
    \/ \E r \in Reqs : WebhookRedirects(r)
    \/ \E r \in Reqs : WebhookBodyRead(r)
    \/ \E r \in Reqs : WebhookFails(r)
    \/ \E r \in Reqs : WebhookTimeout(r)
    \/ \E r \in Reqs : BackoffDone(r)

Spec == Init /\ [][Next]_vars

----------------------------------------------------------------------------
(* The claims *)

Checkout(r) == rq[r].kind = "checkout"
Track(r) == rq[r].kind = "track"
Done(r) == rq[r].pc = "done"
\* The delivery of r's event failed: the call threw (unreachable, timed out,
\* redirect not followable) or returned a non-success status.
DeliveryFailed(r) ==
    rq[r].att > 0 /\ (rq[r].out \in {"threw", "aborted"}
                       \/ (rq[r].out = "returned" /\ rq[r].st # 200))

\* C1: once the Payment Provider has returned a checkout URL, the response to
\* the caller is a success response carrying that URL, whatever the webhook
\* delivery does afterwards.
C1_UrlSurvivesWebhookFailure ==
    \A r \in Reqs :
        (Checkout(r) /\ rq[r].url # 0) =>
            /\ rq[r].nresp > 0 => (rq[r].resp.ok /\ rq[r].resp.url = rq[r].url)
            /\ Done(r) => rq[r].nresp > 0

\* C2: a create-checkout request sends at most one request to the Payment
\* Provider; the webhook is contacted only after the provider has returned a
\* checkout URL; and a request that got no URL is answered with an error that
\* carries no URL.
C2_ProviderOnceThenWebhook ==
    \A r \in Reqs :
        Checkout(r) =>
            /\ rq[r].sqSent <= 1
            /\ rq[r].att > 0 => (rq[r].url # 0 /\ rq[r].sqSent = 1)
            /\ (rq[r].url = 0 /\ rq[r].nresp > 0) =>
                   (~rq[r].resp.ok /\ rq[r].resp.url = 0 /\ rq[r].att = 0)
            /\ (rq[r].url = 0 /\ Done(r)) => rq[r].nresp > 0

\* A provider request was sent, no URL came back, and the caller got the
\* upstream-failure answer.
C2_Witness ==
    \E r \in Reqs :
        /\ Checkout(r) /\ Done(r) /\ rq[r].sqSent = 1 /\ rq[r].url = 0
        /\ rq[r].resp.code = 502 /\ rq[r].att = 0

\* C3 as stated: every create-checkout request that ended in a success
\* response sent exactly one provider request and had its lead recorded by the
\* webhook exactly once.
C3_LeadRecordedExactlyOnce ==
    \A r \in Reqs :
        (Checkout(r) /\ Done(r) /\ rq[r].resp.ok) =>
            (rq[r].sqSent = 1 /\ rq[r].rec = 1)

\* C3 as amended: a create-checkout request that ends in a success response
\* sent exactly one provider request and made at most two delivery calls (one
\* in the servers without the retry loop); the lead is recorded at most once
\* per delivery call, so zero, one or two times.
C3_LeadRecordedAtMostOncePerAttempt ==
    \A r \in Reqs :
        (Checkout(r) /\ rq[r].resp.ok) =>
            /\ rq[r].sqSent = 1
            /\ rq[r].att <= 2
            /\ variant # "retry" => rq[r].att <= 1
            /\ rq[r].rec <= rq[r].att

\* A success response after the first attempt's response was lost and the
\* retry was recorded again.
C3_Witness ==
    \E r \in Reqs :
        Checkout(r) /\ Done(r) /\ rq[r].resp.ok /\ rq[r].att = 2 /\ rq[r].rec = 2

\* C4: no two provider requests carry the same idempotency_key, and every key
\* sent was drawn by its own randomUUID() call.
C4_IdempotencyKeysDistinct ==
    /\ \A r \in Reqs :
           rq[r].sqSent > 0 => rq[r].sqBody.idempotency_key \in 1..uuids
    /\ \A r1, r2 \in Reqs :
           (r1 # r2 /\ rq[r1].sqSent > 0 /\ rq[r2].sqSent > 0) =>
               rq[r1].sqBody.idempotency_key # rq[r2].sqBody.idempotency_key

\* Two provider requests whose bodies agree in everything but the key.
C4_Witness ==
    \E r1, r2 \in Reqs :
        /\ r1 # r2 /\ rq[r1].sqSent > 0 /\ rq[r2].sqSent > 0
        /\ rq[r1].sqBody.amount = rq[r2].sqBody.amount
        /\ rq[r1].sqBody.name = rq[r2].sqBody.name

\* C5: any two booking references generated by the system are distinct, also
\* for two requests handled within the same millisecond.
C5_BookingRefsDistinct ==
    \A r1, r2 \in Reqs :
        (r1 # r2 /\ rq[r1].ref # NoRef /\ rq[r2].ref # NoRef) =>
            rq[r1].ref # rq[r2].ref

\* C6: when the initial POST is answered with a redirect carrying a Location
\* and the redirected call is answered 200, the request that reached the final
\* destination was a POST with the original body.
C6_RedirectKeepsPostAndBody ==
    \A r \in Reqs :
        (/\ rq[r].pc = "wh_body" /\ rq[r].hop = 1 /\ rq[r].st = 200
         /\ FirstMethod(variant) = "POST") =>
            (rq[r].meth = "POST" /\ rq[r].carry)

\* C7: webhook delivery follows at most one redirect hop: no request is sent
\* after the re-issued POST is itself answered with a redirect.
C7_AtMostOneRedirectHop ==
    \A r \in Reqs : rq[r].hop <= 1

\* C8: every request of a webhook delivery, the re-issued POST and the reading
\* of the body included, can be cancelled by the call's timeout: while one is
\* pending, the timer is armed and the request carries its signal.
C8_WebhookRequestsCancellable ==
    \A r \in Reqs :
        rq[r].pc \in {"wh_hdr", "wh_body"} => (rq[r].tmr /\ rq[r].sig)

\* C9: the provider request is issued with an explicit timeout that cancels
\* it: while it is pending, a timer is armed and the request carries its signal.
C9_ProviderRequestCancellable ==
    \A r \in Reqs :
        rq[r].pc = "sq_hdr" => (rq[r].tmr /\ rq[r].sig)

\* C10: when the webhook delivery of a /track-event request fails, the
\* response to the caller is an error and never ok:true.
C10_TrackFailureIsError ==
    \A r \in Reqs :
        (Track(r) /\ Done(r) /\ DeliveryFailed(r)) => ~rq[r].resp.ok

\* The request's total is one the total check must reject: non-finite,
\* negative, or converting to fewer than 1 cent.
TotalRejectable(r) ==
    \/ ~rq[r].inp.total.fin
    \/ rq[r].inp.total.v < 0
    \/ toCents(rq[r].inp.total).v < 1

\* A provider request or a webhook request was issued for r.
Outbound(r) == rq[r].sqSent > 0 \/ rq[r].att > 0

\* The /track-event body has eventType and sessionId as strings and all four
\* stay fields.
TrackFieldsUsable(r) ==
    rq[r].inp.evt = "string" /\ rq[r].inp.sid = "string" /\ rq[r].inp.stay

\* C11 as stated: /track-event responds 400 exactly when eventType, sessionId
\* or a stay field is missing, and 200 {ok:true, bookingRef} in every other
\* case.
C11_TrackEvent400Or200 ==
    \A r \in Reqs :
        (Track(r) /\ Done(r)) =>
            IF rq[r].inp.evt = "absent" \/ rq[r].inp.sid = "absent" \/ ~rq[r].inp.stay
               THEN rq[r].resp.code = 400
               ELSE /\ rq[r].resp.code = 200 /\ rq[r].resp.ok
                    /\ {"ok", "bookingRef"} \subseteq rq[r].resp.keys

\* C11 as amended: /track-event responds 500 when the webhook configuration is
\* absent; otherwise 400 exactly when eventType or sessionId is missing or not
\* a string or a stay field is missing, and no request is sent; otherwise it
\* makes the delivery call and responds 200 {ok:true, bookingRef, ...} when the
\* call returns and 500 when it throws.
C11_TrackEventResponses ==
    \A r \in Reqs :
        (Track(r) /\ Done(r)) =>
            /\ rq[r].nresp = 1
            /\ CASE ~sheetsCfg ->
                      rq[r].resp.code = 500 /\ ~rq[r].resp.ok /\ rq[r].att = 0
                 [] sheetsCfg /\ ~TrackFieldsUsable(r) ->
                      rq[r].resp.code = 400 /\ ~rq[r].resp.ok /\ rq[r].att = 0
                 [] sheetsCfg /\ TrackFieldsUsable(r) /\ rq[r].out = "returned" ->
                      /\ rq[r].resp.code = 200 /\ rq[r].resp.ok
                      /\ {"ok", "bookingRef"} \subseteq rq[r].resp.keys
                      /\ rq[r].ref # NoRef
                 [] OTHER ->
                      rq[r].resp.code = 500 /\ ~rq[r].resp.ok /\ rq[r].att = 1

\* One /track-event request was refused for a sessionId that is not a string,
\* another had usable fields and was answered 500 because the delivery threw.
C11_Witness ==
    \E r1, r2 \in Reqs :
        /\ Track(r1) /\ Done(r1) /\ rq[r1].inp.sid = "number"
        /\ rq[r1].inp.evt = "string" /\ rq[r1].inp.stay /\ rq[r1].resp.code = 400
        /\ Track(r2) /\ Done(r2) /\ TrackFieldsUsable(r2)
        /\ rq[r2].out = "threw" /\ rq[r2].resp.code = 500

C13_MissingStayRejected ==
    \A r \in Reqs :
        (Checkout(r) /\ ~rq[r].inp.stay /\ ~TotalRejectable(r) /\ squareCfg /\ sheetsCfg) =>
            (Done(r) /\ rq[r].resp.code = 400 /\ ~Outbound(r))

\* C14: when the Payment Provider answers with a non-success status, or with
\* success but no payment_link.url, create-checkout responds 502 with the
\* provider's parsed or raw body in details.
C14_UpstreamFailureIs502 ==
    \A r \in Reqs :
        (Checkout(r) /\ rq[r].resp.err = "upstream") =>
            (rq[r].resp.code = 502 /\ rq[r].resp.details \in {"parsed", "raw"})

\* C15: with the provider credentials absent, create-checkout responds 500
\* and issues no outbound request (stated for a request with a valid total and
\* stay details, so that no validation error answers first).
C15_MissingCredentialsIs500 ==
    \A r \in Reqs :
        (Checkout(r) /\ ~squareCfg /\ ~TotalRejectable(r) /\ rq[r].inp.stay) =>
            (Done(r) /\ rq[r].resp.code = 500 /\ ~Outbound(r))

\* C16: every successful create-checkout response has status 200 and a body
\* with ok, bookingRef, url and squareCheckoutUrl, both URLs being the
\* payment_link.url the provider returned for this request.
C16_SuccessBodyShape ==
    \A r \in Reqs :
        (Checkout(r) /\ rq[r].resp.ok) =>
            /\ rq[r].resp.code = 200
            /\ {"ok", "bookingRef", "url", "squareCheckoutUrl"} \subseteq rq[r].resp.keys
            /\ rq[r].resp.url = rq[r].url
            /\ rq[r].url = rq[r].sqBody.idempotency_key
            /\ rq[r].ref # NoRef

\* C17: the retry loop makes at most two attempts; the second attempt starts
\* only from the backoff pause, the pause is entered only after a first attempt
\* that did not succeed, and a successful attempt or the second attempt ends
\* the delivery.
C17_AtMostTwoAttempts ==
    [][\A r \in Reqs :
          /\ rq'[r].att <= 2
          /\ (rq[r].att >= 1 /\ rq'[r].att # rq[r].att) =>
                 (rq[r].pc = "backoff" /\ rq[r].att = 1 /\ rq'[r].att = 2 /\ DeliveryFailed(r))
          /\ (rq'[r].pc = "backoff" /\ rq[r].pc # "backoff") =>
                 (rq[r].att = 1 /\ rq'[r].att = 1 /\ rq'[r].out # "none"
                  /\ ~(rq'[r].out = "returned" /\ rq'[r].st = 200))
          /\ (rq[r].pc = "wh_body" /\ rq'[r].out = "returned" /\ rq'[r].st = 200) =>
                 rq'[r].pc = "done"
          /\ (rq[r].att = 2 /\ rq[r].pc \in {"wh_hdr", "wh_body"} /\ rq'[r].pc # rq[r].pc) =>
                 rq'[r].pc \in {"wh_body", "done"}
          /\ rq[r].pc = "done" => rq'[r] = rq[r]
      ]_vars

\* Both attempts were made and both failed.
C17_Witness ==
    \E r \in Reqs :
        Checkout(r) /\ variant = "retry" /\ Done(r) /\ rq[r].att = 2 /\ DeliveryFailed(r)

\* C18 as stated: after an attempt that timed out, no further webhook request
\* is issued for that event.
C18_TimeoutNeverRetried ==
    [][\A r \in Reqs :
          rq[r].out = "aborted" =>
              (rq'[r].pc \notin {"wh_hdr", "wh_body"} /\ rq'[r].att = rq[r].att)
      ]_vars

\* C18 as amended: a delivery call that times out ends in a failure and sends
\* nothing more itself; the event gets no further request, except that the
\* retry loop treats a timed-out first attempt like any failed attempt and
\* makes its one extra attempt after the backoff pause.
C18_TimeoutEndsTheCall ==
    [][\A r \in Reqs :
          /\ (rq'[r].out = "aborted" /\ rq[r].out # "aborted") =>
                 /\ rq[r].pc \in {"wh_hdr", "wh_body"} /\ rq[r].tmr /\ rq[r].sig
                 /\ rq'[r].att = rq[r].att
                 /\ rq'[r].pc \in {"done", "backoff"}
                 /\ rq'[r].pc = "done" => ~(rq'[r].kind = "track" /\ rq'[r].resp.ok)
          /\ (rq[r].out = "aborted" /\ rq'[r].pc # "done" /\ rq'[r] # rq[r]) =>
                 /\ variant = "retry" /\ rq[r].att = 1 /\ rq[r].pc = "backoff"
                 /\ rq'[r].att = 2
          \* an attempt that ended, by timeout or otherwise, is followed by a new
          \* request only through that pause
          /\ (rq[r].att >= 1 /\ rq'[r].att # rq[r].att) =>
                 (variant = "retry" /\ rq[r].att = 1 /\ rq[r].pc = "backoff")
      ]_vars

\* The first attempt of the retry loop timed out and the loop pauses before
\* its second attempt.
C18_Witness ==
    \E r \in Reqs :
        /\ Checkout(r) /\ variant = "retry" /\ rq[r].pc = "backoff"
        /\ rq[r].att = 1 /\ rq[r].out = "aborted"

\* C19: every quote the widget builds from a valid date range satisfies, in
\* exact arithmetic, grandTotal = preTaxTotal + taxAmount and preTaxTotal =
\* lodging + cleaning - discountAmount, with cleaning = 150, taxAmount = 7% of
\* preTaxTotal, and discountAmount = 0 when discountApplied is false.
C19_QuoteIdentities ==
    LET q == widget.lastBooking IN
    q.set =>
        /\ q.grandTotal = q.preTaxTotal + q.taxAmount
        /\ q.preTaxTotal = q.lodging + q.cleaning - q.discountAmount
        /\ q.cleaning = 150 * 1000
        /\ 100 * q.taxAmount = 7 * q.preTaxTotal
        /\ ~q.discountApplied => q.discountAmount = 0
        /\ q.nights >= 1 /\ q.lodging > 0

\* The discounted quote for Fri 2026-07-03 to Mon 2026-07-06: lodging 950,
\* discount 110, pre-tax 990, tax 69.30, total 1059.30 (in thousandths of a
\* dollar).
C19_Witness ==
    LET q == widget.lastBooking IN
    /\ q.set /\ q.discountApplied
    /\ q.checkin = [y |-> 2026, m |-> 7, d |-> 3] /\ q.nights = 3
    /\ q.lodging = 950000 /\ q.discountAmount = 110000
    /\ q.preTaxTotal = 990000 /\ q.taxAmount = 69300 /\ q.grandTotal = 1059300

\* C20: for every date, nightlyRate returns 325 on Friday/Saturday and 300
\* otherwise from Apr 1 to Aug 31; 275 and 250 from Mar 1 to Mar 31 and from
\* Sep 1 to Oct 31; 250 and 225 on all other dates; the bounds are inclusive
\* and only month and day are compared.  Checked on every night of every
\* quote: each calendar day of the years is the first night of one.
C20_NightlyRateTable ==
    \A i \in DOMAIN widget.lastBooking.priced :
        LET n == widget.lastBooking.priced[i]
            wknd == n.day \in {5, 6}
        IN
        /\ n.date.m \in 1..12 /\ n.date.d \in 1..31
        /\ n.rate = CASE n.date.m \in 4..8 -> (IF wknd THEN 325 ELSE 300)
                      [] n.date.m \in {3, 9, 10} -> (IF wknd THEN 275 ELSE 250)
                      [] OTHER -> (IF wknd THEN 250 ELSE 225)

\* A stay over the end of the peak window that starts on a Saturday:
\* Sat 2026-08-29 at 325, Sun 08-30 and Mon 08-31 at 300, Tue 09-01 at 250.
C20_Witness ==
    LET p == widget.lastBooking.priced IN
    /\ Len(p) = 4
    /\ p[1].date = [y |-> 2026, m |-> 8, d |-> 29] /\ p[1].day = 6 /\ p[1].rate = 325
    /\ p[3].date = [y |-> 2026, m |-> 8, d |-> 31] /\ p[3].rate = 300
    /\ p[4].date = [y |-> 2026, m |-> 9, d |-> 1] /\ p[4].rate = 250

\* The calendar days of the stay the visitor entered: check-in inclusive,
\* check-out exclusive.
StayDays == Serial(widget.checkin.y, widget.checkin.m, widget.checkin.d)
              .. (Serial(widget.checkout.y, widget.checkout.m, widget.checkout.d) - 1)

\* C21: a quote has the discount applied if and only if the stay has at least
\* 3 nights and at least one of its nights (check-in inclusive, check-out
\* exclusive) is a date from Apr 1 to Aug 31; when applied, discountAmount is
\* exactly 10% of lodging + cleaning, and the tax is taken on what is left
\* after the discount.
C21_DiscountEligibility ==
    LET q == widget.lastBooking IN
    q.set =>
        /\ q.discountApplied <=>
              (Cardinality(StayDays) >= 3 /\ \E n \in StayDays : Civil(n).m \in 4..8)
        /\ q.discountApplied => 10 * q.discountAmount = q.lodging + q.cleaning
        /\ 100 * q.taxAmount = 7 * (q.lodging + q.cleaning - q.discountAmount)

\* A discounted stay whose only peak night is its last: Mon 2026-03-30 to
\* Thu 2026-04-02 in the zone with daylight saving.
C21_Witness ==
    LET q == widget.lastBooking IN
    /\ widget.tz = "dst"
    /\ widget.checkin = [y |-> 2026, m |-> 3, d |-> 30]
    /\ widget.checkout = [y |-> 2026, m |-> 4, d |-> 2]
    /\ q.set /\ q.discountApplied /\ q.nights = 3
    /\ q.lodging = 800000 /\ q.discountAmount = 95000

RECURSIVE CalendarLodging(_, _)
\* The sum of the rate table over the calendar days first, first + 1, ...,
\* first + nights - 1.
CalendarLodging(first, nights) ==
    IF nights <= 0 THEN 0
    ELSE CalendarLodging(first, nights - 1)
           + rateFor(mdOf(Civil(first + nights - 1)), WeekDay(first + nights - 1) \in {5, 6})

\* C22: the lodging of a quote is the sum of the nightly rate over each
\* calendar date from check-in (inclusive) to check-out (exclusive); the stay
\* 2026-01-20 to 2026-01-23 yields lodging 675, no discount, pre-tax 825, tax
\* 57.75, total 882.75, and the stay 2026-07-03 to 2026-07-06 yields lodging
\* 950, discount 110, pre-tax 990, tax 69.30, total 1059.30.
C22_LodgingSumsCalendarNights ==
    LET q == widget.lastBooking
        first == Serial(widget.checkin.y, widget.checkin.m, widget.checkin.d)
    IN q.set =>
        /\ q.lodging = Mills(CalendarLodging(first, Cardinality(StayDays)))
        /\ (widget.checkin = [y |-> 2026, m |-> 1, d |-> 20]
              /\ widget.checkout = [y |-> 2026, m |-> 1, d |-> 23])
             => /\ q.lodging = 675000 /\ ~q.discountApplied /\ q.discountAmount = 0
                /\ q.preTaxTotal = 825000 /\ q.taxAmount = 57750 /\ q.grandTotal = 882750
        /\ (widget.checkin = [y |-> 2026, m |-> 7, d |-> 3]
              /\ widget.checkout = [y |-> 2026, m |-> 7, d |-> 6])
             => /\ q.lodging = 950000 /\ q.discountApplied /\ q.discountAmount = 110000
                /\ q.preTaxTotal = 990000 /\ q.taxAmount = 69300 /\ q.grandTotal = 1059300

\* C23: for every input string, normalizePhoneE164 returns "+1" and the
\* digits when the input has exactly 10 digits and no leading "+"; "+" and the
\* digits when it has 11 digits starting with "1"; an input that already
\* starts with "+" with its digits unchanged, no country code added or
\* altered; and any other input unchanged (its surrounding blanks apart).
C23_NormalizePhoneContract ==
    LET s   == trim(calc.phone)
        ds  == digitsOf(calc.phone)
        us11 == Len(ds) = 11 /\ ds[1] = "1"
    IN (calc.fn = "normalizePhoneE164" /\ calc.done) =>
        /\ (Len(ds) = 10 /\ ~startsWithPlus(s)) => calc.out = <<"+", "1">> \o ds
        /\ us11 => calc.out = <<"+">> \o ds
        /\ startsWithPlus(s) => digitsOf(calc.out) = ds
        /\ (~startsWithPlus(s) /\ Len(ds) # 10 /\ ~us11) => calc.out = s

\* C24: for every finite amount, positive or negative, toCents returns the
\* nearest whole number of cents, an exact half cent going away from zero.
C24_RoundsHalfAwayFromZero ==
    LET v == calc.amount.v IN
    (calc.fn = "toCents" /\ calc.done /\ calc.amount.fin) =>
        /\ ~calc.cents.null
        /\ calc.cents.v = IF v >= 0 THEN (v + 5) \div 10 ELSE 0 - ((5 - v) \div 10)

\* C25 as stated: for every amount that is a whole number of cents, toCents
\* returns that number of cents (which divided by 100 is the amount again),
\* in either version of toCents, and no cent value for a non-finite amount.
C25_RoundTripEveryWholeCent ==
    (calc.fn \in {"toCents", "toCentsStrict"} /\ calc.done) =>
        /\ (calc.amount.fin /\ calc.amount.v % 10 = 0) =>
              (~calc.cents.null /\ 10 * calc.cents.v = calc.amount.v)
        /\ ~calc.amount.fin => calc.cents.null

\* C25: for every positive amount that is a whole number of cents, toCents
\* returns that number of cents, in either version; the version that takes
\* zero and negative amounts returns their cents too, the other returns no
\* cent value for them; both return no cent value for a non-finite amount.
C25_RoundTripOfAcceptedAmounts ==
    (calc.fn \in {"toCents", "toCentsStrict"} /\ calc.done) =>
        /\ (calc.amount.fin /\ calc.amount.v % 10 = 0
              /\ (calc.amount.v > 0 \/ calc.fn = "toCents")) =>
              (~calc.cents.null /\ 10 * calc.cents.v = calc.amount.v)
        /\ (calc.fn = "toCentsStrict" /\ calc.amount.fin /\ calc.amount.v <= 0) =>
              calc.cents.null
        /\ ~calc.amount.fin => calc.cents.null

\* Twelve cents through the stricter toCents.
C25_Witness ==
    /\ calc.fn = "toCentsStrict" /\ calc.done
    /\ calc.amount = Num(120) /\ calc.cents = Cents(12)

\* Is a "y-m-d" input a day of the calendar?
RealDate(v) == Civil(Serial(v.y, v.m, v.d)) = v

C27_SuccessReportsDelivery ==
    \A r \in Reqs :
        (Checkout(r) /\ rq[r].resp.code = 200 /\ rq[r].resp.ok) =>
            /\ "sheets" \in rq[r].resp.keys
            /\ rq[r].resp.sheets # "none"
            /\ (Done(r) /\ DeliveryFailed(r)) => rq[r].resp.sheets = "failed"

\* The promotional booking period: November 28, 2025 to January 15, 2026.
PromoPeriod == Serial(2025, 11, 28)..Serial(2026, 1, 15)

\* C28: the 10% discount is applied only to quotes made within the
\* promotional booking period; a quote made outside it has no discount, even
\* for a stay of 3 or more nights with a peak-season night.
C28_DiscountOnlyInPromoPeriod ==
    (widget.lastBooking.set /\ widget.lastBooking.discountApplied)
        => widget.today \in PromoPeriod

\* C29: in the servers that deliver with postJsonFollowRedirectPreserveMethod,
\* when the webhook answers the initial POST with a 3xx status that carries no
\* Location header, the step that takes that answer ends the call: no second
\* request is issued, and the response to the caller does not report success.
C29_BareRedirectIsFailure ==
    [][\A r \in Reqs :
          (/\ variant = "await"
           /\ rq[r].pc = "wh_body" /\ rq[r].hop = 0 /\ rq[r].st \in BareRedirects
           /\ rq'[r] # rq[r])
          => /\ rq'[r].pc = "done"
             /\ ~(rq'[r].resp.code = 200 /\ rq'[r].resp.ok)]_vars

\* C30: in the detached server the success response is sent while the webhook
\* delivery is still pending, and however the delivery ends (a success or a
\* non-success status, a rejection, a timeout, or no webhook configured) its
\* outcome is logged and the response stays the one success response: no
\* second response, no error response, no rejection left unhandled.
C30_DetachedDeliveryOnlyLogs ==
    \A r \in Reqs :
        (variant = "detached" /\ Checkout(r)) =>
            /\ rq[r].pc \in {"wh_hdr", "wh_body"} =>
                  (rq[r].nresp = 1 /\ rq[r].resp.code = 200 /\ rq[r].resp.ok)
            /\ (Done(r) /\ rq[r].out \in {"returned", "threw", "aborted", "skipped"}) =>
                  /\ rq[r].logged
                  /\ rq[r].nresp = 1 /\ rq[r].resp.code = 200 /\ rq[r].resp.ok

\* A detached delivery that timed out after the response had gone.
C30_Witness ==
    \E r \in Reqs :
        /\ variant = "detached" /\ Checkout(r) /\ Done(r)
        /\ rq[r].out = "aborted" /\ rq[r].logged
        /\ rq[r].nresp = 1 /\ rq[r].resp.code = 200

PostLeadKeys == LeadKeys("await") \ {"eventType", "sessionId"}

\* C32: the GET transport carries the same data as the POST transport:
\* base64url-decoding the payload parameter yields exactly the JSON of the lead
\* payload, which has the action, the shared secret and the field set of the
\* POST variant's lead payload (guestName, guestEmail, guestPhone, lodging and
\* cleaning included); the secret is in the payload and not in a header.
C32_GetCarriesThePostPayload ==
    \A r \in Reqs :
        (rq[r].lead.sent /\ rq[r].lead.via = "query") =>
            /\ base64urlDecode(payloadParam(rq[r].lead)) = stringify(rq[r].lead)
            /\ {"action", "secret"} \subseteq rq[r].lead.keys
            /\ rq[r].lead.secretIn = "payload"
            /\ rq[r].lead.keys = PostLeadKeys

\* What request r has put into its provider request, its lead payload and its
\* response comes from r itself: its reference, its total, the payment link
\* the provider made for its idempotency key.
OwnData(r) ==
    /\ rq[r].sqSent > 0 =>
            /\ rq[r].sqBody.name = rq[r].ref
            /\ rq[r].sqBody.amount = toCents(rq[r].inp.total).v
    /\ rq[r].url # 0 => rq[r].url = rq[r].sqBody.idempotency_key
    /\ rq[r].lead.sent =>
            /\ rq[r].lead.ref = rq[r].ref
            /\ rq[r].lead.total = rq[r].inp.total
            /\ rq[r].lead.url = (IF Track(r) THEN 0 ELSE rq[r].url)
    /\ (rq[r].nresp > 0 /\ rq[r].resp.ok) =>
            /\ rq[r].resp.ref = rq[r].ref
            /\ rq[r].resp.url = (IF Track(r) THEN 0 ELSE rq[r].url)

\* The steps the environment can take for a request in flight.
InFlightStep(q) ==
    \/ SquareHeaders(q) \/ SquareBodyRead(q) \/ SquareFails(q) \/ SquareTimeout(q)
    \/ WebhookAnswers(q) \/ WebhookRedirects(q) \/ WebhookBodyRead(q)
    \/ WebhookFails(q) \/ WebhookTimeout(q) \/ BackoffDone(q)

\* A step of one request leaves the other request as it was: its data, its
\* response, and what can happen to it next.
Independent ==
    \A r \in Reqs : \A q \in Reqs \ {r} :
        rq'[r] # rq[r] =>
            /\ rq'[q] = rq[q]
            /\ (ENABLED InFlightStep(q))' = ENABLED InFlightStep(q)
            /\ (ENABLED SquareTimeout(q))' = ENABLED SquareTimeout(q)
            /\ (ENABLED WebhookTimeout(q))' = ENABLED WebhookTimeout(q)

\* C33: requests are handled independently: under any interleaving of two
\* in-flight requests, each request's provider request, lead payload and
\* response hold only that request's own booking reference, amount and checkout
\* URL, and no step of one request changes the other request or what can
\* happen to it.
C33_RequestsIndependent ==
    [](\A r \in Reqs : OwnData(r)) /\ [][Independent]_vars

\* Two checkouts in flight at once: the first has its lead on the way to the
\* webhook while the second, with another reference, has already been refused
\* by the Payment Provider.
C33_Witness ==
    /\ Checkout(1) /\ rq[1].pc = "wh_hdr" /\ rq[1].lead.sent
    /\ Checkout(2) /\ Done(2) /\ rq[2].resp.code \in {400, 502} /\ rq[2].sqSent = 1
    /\ rq[1].ref # rq[2].ref
    /\ OwnData(1) /\ OwnData(2)

\* C34: for every create-checkout request that validation accepts, the integer
\* amount sent to the Payment Provider is at least 1 and is toCents of the
\* total recorded in the lead payload sent to the webhook.
C34_ChargedIsLoggedTotal ==
    \A r \in Reqs :
        Checkout(r) =>
            /\ rq[r].sqSent > 0 => rq[r].sqBody.amount >= 1
            /\ rq[r].lead.sent =>
                    /\ rq[r].sqSent > 0
                    /\ toCents(rq[r].lead.total) = Cents(rq[r].sqBody.amount)

\* A lead is on its way whose total is not a whole number of cents: the amount
\* charged is the total rounded.
C34_Witness ==
    \E r \in Reqs :
        /\ Checkout(r) /\ rq[r].lead.sent /\ rq[r].sqSent = 1
        /\ rq[r].lead.total.fin /\ rq[r].lead.total.v % 10 # 0
        /\ rq[r].sqBody.amount * 10 > rq[r].lead.total.v

\* C35: normalizePhoneE164 is idempotent: normalizing a number that
\* normalizePhoneE164, or the widget's normalizePhone_, has already normalized
\* gives that number back.
C35_NormalizePhoneIdempotent ==
    calc.twice => calc.out2 = calc.out

\* The widget turned a dashed ten-digit number into +1 and the digits, and the
\* server left that as it was.
C35_Witness ==
    /\ calc.fn = "normalizePhone_" /\ calc.twice
    /\ Len(digitsOf(calc.phone)) = 10 /\ Len(calc.phone) > 10
    /\ calc.out # calc.phone
    /\ calc.out2 = <<"+", "1">> \o digitsOf(calc.phone)

\* C36: in the handlers that await the redirect-preserving webhook delivery, a
\* missing webhook URL or secret makes create-checkout respond 500 before any
\* request is sent to the Payment Provider: no payment link is created while
\* the webhook is unconfigured.
C36_NoWebhookNoPaymentLink ==
    \A r \in Reqs :
        (variant = "await" /\ ~sheetsCfg /\ Checkout(r)) =>
            /\ Done(r) /\ rq[r].nresp = 1
            /\ rq[r].resp.code = 500 /\ ~rq[r].resp.ok /\ rq[r].resp.err = "config"
            /\ rq[r].sqSent = 0 /\ rq[r].sqBody = NoBody /\ rq[r].url = 0
            /\ ~rq[r].lead.sent

\* Square is configured, the webhook is not, and a request that validation
\* would accept has been answered.
C36_Witness ==
    \E r \in Reqs :
        /\ variant = "await" /\ squareCfg /\ ~sheetsCfg
        /\ Checkout(r) /\ Done(r)
        /\ ~InvalidTotal(variant, rq[r].inp.total) /\ rq[r].inp.stay
        /\ rq[r].resp.code = 500 /\ rq[r].sqSent = 0

\* The response of a request, once sent, is the response: nothing is sent
\* after it.
ResponseStays ==
    \A r \in Reqs :
        rq[r].nresp > 0 => (rq'[r].nresp = rq[r].nresp /\ rq'[r].resp = rq[r].resp)

\* Request r has at most one response; it has one when its calls are over,
\* and it has none before they are, but for the detached server, which
\* answers as soon as it has started the delivery.
OneResponse(r) ==
    /\ rq[r].nresp <= 1
    /\ Done(r) => (rq[r].nresp = 1 /\ rq[r].resp.code # 0)
    /\ rq[r].nresp = 1 => (Done(r) \/ (variant = "detached" /\ rq[r].att > 0))

\* C37: every create-checkout or track-event request whose outbound calls
\* have completed (with a response or an error) has received exactly one HTTP
\* response, on every path (configuration failure, validation failure,
\* provider failure, webhook failure or exception, success); no path sends two.
C37_ExactlyOneResponse ==
    [](\A r \in Reqs : OneResponse(r)) /\ [][ResponseStays]_vars

\* A detached checkout was answered 200 while its lead was on the way, the
\* delivery then failed, and the other request was refused by the provider.
C37_Witness ==
    \E r \in Reqs : \E q \in Reqs \ {r} :
        /\ variant = "detached"
        /\ Checkout(r) /\ Done(r) /\ rq[r].out \in {"threw", "aborted"}
        /\ rq[r].nresp = 1 /\ rq[r].resp.code = 200
        /\ Checkout(q) /\ Done(q) /\ rq[q].nresp = 1 /\ rq[q].resp.code = 502
====
